---- MODULE Spec2Model ----
(***************************************************************************)
(* State-machine model of deltawatch's DirectoryChangeTracker              *)
(* (src/deltawatch.py): the change-aggregation engine that folds           *)
(* filesystem events into per-directory statistics, a per-file size        *)
(* ledger and a bounded history, and the two snapshot queries.             *)
(*                                                                         *)
(* Strings are sequences of one-character strings, so that lower(),        *)
(* fnmatch() and os.path.dirname() are computed, not assumed.  A Python    *)
(* dict is a function whose DOMAIN is its key set; dir_changes, whose      *)
(* iteration order the queries depend on, also carries its keys in         *)
(* insertion order (dir_changes_keys).  The filesystem and the clock are   *)
(* the environment: every os.path / os.scandir answer a handler consumes   *)
(* is an input of the action.                                              *)
(***************************************************************************)
EXTENDS Integers, Sequences, FiniteSets, TLC

\* ------------------------------------------------------------------ bounds

\* _record_change calls in one behaviour of Spec (any filesystem answer).
MaxRecords == 2
\* _record_change calls in one behaviour of SpecFiles (a steady filesystem).
MaxSteadyRecords == 3
\* Largest file size the filesystem reports.
MaxSize == 1
\* Last clock tick.
MaxTime == 1
\* Largest history capacity (max_history) a tracker is constructed with.
MaxHistory == 2

\* _record_change calls in one behaviour of SpecProbe (any directory listing).
MaxProbeRecords == 2
\* Most entries of a directory listing in SpecProbe.
MaxEntries == 2
\* _record_change calls in one behaviour of SpecThreads (statement by
\* statement, the main thread reading in between).
MaxThreadRecords == 2

\* ----------------------------------------------------------------- strings

Str_af == <<"/", "a", "/", "f">>
Str_ag == <<"/", "a", "/", "g">>
Str_bf == <<"/", "b", "/", "f">>
Str_axT == <<"/", "a", "/", "x", ".", "T">>
Str_pat == <<"*", ".", "t">>

\* The paths events arrive on: two files of one directory, a file of
\* another, and a path the exclusion pattern matches.  Any of them may be
\* a directory when an event on it is recorded.
Paths == {Str_af, Str_ag, Str_bf, Str_axT}

\* The exclude_patterns list the tracker is constructed with (--exclude).
ExcludePatterns == <<Str_pat>>

LowerOf ==
  [A |-> "a", B |-> "b", C |-> "c", D |-> "d", E |-> "e", F |-> "f", G |-> "g",
   H |-> "h", I |-> "i", J |-> "j", K |-> "k", L |-> "l", M |-> "m", N |-> "n",
   O |-> "o", P |-> "p", Q |-> "q", R |-> "r", S |-> "s", T |-> "t", U |-> "u",
   V |-> "v", W |-> "w", X |-> "x", Y |-> "y", Z |-> "z"]

\* str.lower()
lower(s) == [i \in 1..Len(s) |-> IF s[i] \in DOMAIN LowerOf THEN LowerOf[s[i]] ELSE s[i]]

\* fnmatch.fnmatchcase for patterns of literals, "*" and "?" ("*" also
\* matches "/"); the whole name must match.
RECURSIVE fnmatchcase(_, _)
fnmatchcase(name, pat) ==
  IF pat = <<>> THEN name = <<>>
  ELSE IF Head(pat) = "*"
       THEN fnmatchcase(name, Tail(pat))
            \/ (name # <<>> /\ fnmatchcase(Tail(name), pat))
  ELSE name # <<>>
       /\ (Head(pat) = "?" \/ Head(pat) = Head(name))
       /\ fnmatchcase(Tail(name), Tail(pat))

\* DirectoryChangeTracker._is_excluded
is_excluded(exclude_patterns, path) ==
  \E i \in 1..Len(exclude_patterns) :
    fnmatchcase(lower(path), lower(exclude_patterns[i]))

RECURSIVE rstrip_slash(_)
rstrip_slash(s) ==
  IF s # <<>> /\ s[Len(s)] = "/" THEN rstrip_slash(SubSeq(s, 1, Len(s) - 1)) ELSE s

\* os.path.dirname (posixpath): everything up to the last "/", with the
\* trailing slashes stripped unless the head is made of slashes only.
dirname(p) ==
  LET slashes == {i \in 1..Len(p) : p[i] = "/"}
      i == IF slashes = {} THEN 0 ELSE CHOOSE k \in slashes : \A j \in slashes : j <= k
      head == SubSeq(p, 1, i)
  IN IF head # <<>> /\ (\E j \in 1..Len(head) : head[j] # "/")
     THEN rstrip_slash(head)
     ELSE head

\* -------------------------------------------------------------------- dicts

EmptyDict == <<>>
Has(d, k) == k \in DOMAIN d
Get(d, k, default) == IF k \in DOMAIN d THEN d[k] ELSE default
Put(d, k, v) == [x \in (DOMAIN d) \cup {k} |-> IF x = k THEN v ELSE d[x]]
Del(d, k) == [x \in (DOMAIN d) \ {k} |-> d[x]]

\* ------------------------------------------------------------- environment

EventTypes == {"created", "modified", "deleted", "moved", "moved_to"}

\* One os.scandir entry: what is_file(follow_symlinks=False) answers, and
\* what stat(follow_symlinks=False) answers (stat_ok = FALSE: it raises).
File(n) == [is_file |-> TRUE, stat_ok |-> TRUE, st_size |-> n]
SubDir == [is_file |-> FALSE, stat_ok |-> TRUE, st_size |-> MaxSize]
Symlink == [is_file |-> FALSE, stat_ok |-> TRUE, st_size |-> 1]
Vanished == [is_file |-> TRUE, stat_ok |-> FALSE, st_size |-> 0]

\* What os.scandir(directory) answers: it raises (open_ok = FALSE) or lists
\* the entries.
NoListing == [open_ok |-> FALSE, entries |-> <<>>]
Listing1 == [open_ok |-> TRUE, entries |-> <<SubDir, File(1), Vanished, Symlink>>]
Listings == {NoListing, Listing1}

\* get_dir_size, lines 49-54: the sum of the sizes of the entries that are
\* regular files and whose stat succeeds.
RECURSIVE sum_entries(_)
sum_entries(entries) ==
  IF entries = <<>> THEN 0
  ELSE (IF Head(entries).is_file /\ Head(entries).stat_ok
        THEN Head(entries).st_size ELSE 0) + sum_entries(Tail(entries))

get_dir_size_aborts(listing) ==
  IF listing.open_ok /\ (\A k \in 1..Len(listing.entries) : listing.entries[k].stat_ok)
  THEN sum_entries(listing.entries) ELSE 0

\* get_dir_size: 0 when the directory cannot be opened.
get_dir_size(listing) ==
  IF listing.open_ok THEN sum_entries(listing.entries) ELSE 0

\* The filesystem answers one _record_change call consumes:
\*   is_dir      os.path.isdir(path)                         line 117
\*   exists      os.path.exists(file_path)                   lines 131, 138, 162
\*   stat_ok     os.path.getsize(file_path) does not raise   lines 132, 139, 163
\*   size        what os.path.getsize(file_path) returns
\*   dir_is_dir  os.path.isdir(directory)                    line 183
\*   listing     what os.scandir(directory) answers          line 48
\* An answer the call does not ask for is fixed (FALSE, 0, NoListing), so
\* that the elements of a set are different runs of the code.
NoAnswers ==
  [is_dir |-> FALSE, exists |-> FALSE, stat_ok |-> FALSE, size |-> 0,
   dir_is_dir |-> FALSE, listing |-> NoListing]

ReadsSize(event_type) == event_type \in {"created", "modified", "moved_to"}

\* Every answer: the path may be a directory, may have vanished, its stat
\* may fail after exists() said yes; the directory may have vanished.
FsAnswers(event_type) ==
  {fs \in [is_dir : BOOLEAN, exists : BOOLEAN, stat_ok : BOOLEAN, size : 0..MaxSize,
           dir_is_dir : BOOLEAN, listing : Listings] :
     /\ (fs.is_dir \/ ~ReadsSize(event_type)) => ~fs.exists
     /\ ~fs.exists => ~fs.stat_ok
     /\ ~fs.stat_ok => fs.size = 0
     /\ ~fs.dir_is_dir => fs.listing = NoListing}

\* A steady filesystem: the paths are files or missing, every stat
\* succeeds, the parent directory is there and can be listed.
SteadyAnswers(event_type) ==
  {fs \in FsAnswers(event_type) :
     ~fs.is_dir /\ fs.stat_ok = fs.exists /\ fs.dir_is_dir /\ fs.listing = Listing1}

\* The two environments the specifications run the tracker in.
AnyFs ==
  [max_records |-> MaxRecords, max_time |-> MaxTime,
   answers |-> [t \in EventTypes |-> FsAnswers(t)]]

SteadyFs ==
  [max_records |-> MaxSteadyRecords, max_time |-> MaxTime,
   answers |-> [t \in EventTypes |-> SteadyAnswers(t)]]

\* Every directory os.scandir can list with at most MaxEntries entries:
\* regular files with a size, subdirectories, symbolic links and entries
\* whose stat raises, in any order; or it raises.
ProbeEntries == {File(n) : n \in 1..MaxSize} \cup {SubDir, Symlink, Vanished}

ProbeListings ==
  {NoListing} \cup
  {[open_ok |-> TRUE, entries |-> e] :
     e \in UNION {[1..n -> ProbeEntries] : n \in 0..MaxEntries}}

\* Events on a missing file of a directory that is there, the directory
\* listing being any of ProbeListings.
ProbeAnswers(event_type) ==
  {[NoAnswers EXCEPT !.dir_is_dir = TRUE, !.listing = l] : l \in ProbeListings}

ProbeFs ==
  [max_records |-> MaxProbeRecords, max_time |-> MaxTime,
   answers |-> [t \in EventTypes |-> ProbeAnswers(t)]]

\* -------------------------------------------------------------------- state

VARIABLES
  max_history,        \* self.max_history: capacity of recent_events
  exclude_patterns,   \* self.exclude_patterns
  dir_changes,        \* self.dir_changes: dir -> change count
  dir_changes_keys,   \* the keys of self.dir_changes in insertion order
  dir_last_change,    \* self.dir_last_change: dir -> time of the last change
  dir_sizes,          \* self.dir_sizes: dir -> current size
  dir_initial_sizes,  \* self.dir_initial_sizes: dir -> size when first seen
  dir_size_deltas,    \* self.dir_size_deltas: dir -> cumulative size change
  file_sizes,         \* self.file_sizes: file path -> last known size
  recent_events,      \* self.recent_events: deque of <<time, type, path, delta>>
  total_events,       \* self.total_events
  event_counts,       \* self.event_counts: event type -> count
  excluded_events,    \* self.excluded_events
  clock,              \* what datetime.now() answers, in minutes
  calls,              \* history variable: the _record_change calls made so
                      \* far, each with its arguments, the filesystem's
                      \* answers and the tracker as the call found it
  watcher,            \* the observer thread: Idle between two events, else
                      \* the _record_change call it is in and the line it
                      \* is at
  display             \* what the main thread's last create_display read:
                      \* <<>> before the first, else <<the values>>

tracker_vars ==
  <<max_history, exclude_patterns, dir_changes, dir_changes_keys, dir_last_change,
    dir_sizes, dir_initial_sizes, dir_size_deltas, file_sizes, recent_events,
    total_events, event_counts, excluded_events>>

thread_vars == <<watcher, display>>

vars == <<tracker_vars, clock, calls, thread_vars>>

\* The tracker object as one value.
Self ==
  [max_history |-> max_history, exclude_patterns |-> exclude_patterns,
   dir_changes |-> dir_changes, dir_changes_keys |-> dir_changes_keys,
   dir_last_change |-> dir_last_change, dir_sizes |-> dir_sizes,
   dir_initial_sizes |-> dir_initial_sizes, dir_size_deltas |-> dir_size_deltas,
   file_sizes |-> file_sizes, recent_events |-> recent_events,
   total_events |-> total_events, event_counts |-> event_counts,
   excluded_events |-> excluded_events]

\* The tracker object becomes s.
Becomes(s) ==
  /\ max_history' = s.max_history
  /\ exclude_patterns' = s.exclude_patterns
  /\ dir_changes' = s.dir_changes
  /\ dir_changes_keys' = s.dir_changes_keys
  /\ dir_last_change' = s.dir_last_change
  /\ dir_sizes' = s.dir_sizes
  /\ dir_initial_sizes' = s.dir_initial_sizes
  /\ dir_size_deltas' = s.dir_size_deltas
  /\ file_sizes' = s.file_sizes
  /\ recent_events' = s.recent_events
  /\ total_events' = s.total_events
  /\ event_counts' = s.event_counts
  /\ excluded_events' = s.excluded_events

\* The observer thread between two events.
Idle == [line |-> "idle"]

\* collections.deque(maxlen=maxlen), lines 85-87: a negative maxlen raises
\* ValueError, any other is taken.
deque_accepts(maxlen) == maxlen >= 0

\* DirectoryChangeTracker.__init__: max_history is any integer the deque
\* takes (--max-history, type=int); nothing else checks it.
Init ==
  /\ max_history \in {m \in (-MaxHistory)..MaxHistory : deque_accepts(m)}
  /\ exclude_patterns = ExcludePatterns
  /\ dir_changes = EmptyDict
  /\ dir_changes_keys = <<>>
  /\ dir_last_change = EmptyDict
  /\ dir_sizes = EmptyDict
  /\ dir_initial_sizes = EmptyDict
  /\ dir_size_deltas = EmptyDict
  /\ file_sizes = EmptyDict
  /\ recent_events = <<>>
  /\ total_events = 0
  /\ event_counts = EmptyDict
  /\ excluded_events = 0
  /\ clock = 0
  /\ calls = <<>>
  /\ watcher = Idle
  /\ display = <<>>

\* ------------------------------------------------------------ _record_change

excluded_step_counts_total(self) ==
  [self EXCEPT !.excluded_events = @ + 1, !.total_events = @ + 1]

\* Lines 111-114: an excluded path is counted and nothing else happens.
excluded_step(self) == [self EXCEPT !.excluded_events = @ + 1]

directory_of_parent(path, fs) == dirname(path)

\* Lines 116-123: the directory the event is attributed to.
directory_of(path, fs) == IF fs.is_dir THEN path ELSE dirname(path)

created_step_no_ledger(ledger, path, fs) ==
  IF fs.exists /\ fs.stat_ok
  THEN [size_delta |-> fs.size, file_sizes |-> ledger]
  ELSE [size_delta |-> 0, file_sizes |-> ledger]

created_step_zero_delta(ledger, path, fs) ==
  IF fs.exists /\ fs.stat_ok
  THEN [size_delta |-> 0, file_sizes |-> Put(ledger, path, fs.size)]
  ELSE [size_delta |-> 0, file_sizes |-> ledger]

\* Lines 129-134 and 160-165 ("created", "moved_to"): the full size is the
\* delta.  getsize raising OSError (line 167) leaves the ledger alone.
created_step(ledger, path, fs) ==
  IF fs.exists /\ fs.stat_ok
  THEN [size_delta |-> fs.size, file_sizes |-> Put(ledger, path, fs.size)]
  ELSE [size_delta |-> 0, file_sizes |-> ledger]

modified_step_unknown_is_empty(ledger, path, fs) ==
  IF fs.exists /\ fs.stat_ok
  THEN [size_delta |-> fs.size - Get(ledger, path, 0),
        file_sizes |-> Put(ledger, path, fs.size)]
  ELSE [size_delta |-> 0, file_sizes |-> ledger]

modified_step_failed_read_is_empty(ledger, path, fs) ==
  IF fs.exists /\ fs.stat_ok
  THEN [size_delta |-> fs.size - Get(ledger, path, fs.size),
        file_sizes |-> Put(ledger, path, fs.size)]
  ELSE [size_delta |-> -Get(ledger, path, 0), file_sizes |-> Put(ledger, path, 0)]

\* Lines 136-144 ("modified"): the difference to the last known size; an
\* unknown file counts as unchanged.
modified_step(ledger, path, fs) ==
  IF fs.exists /\ fs.stat_ok
  THEN [size_delta |-> fs.size - Get(ledger, path, fs.size),
        file_sizes |-> Put(ledger, path, fs.size)]
  ELSE [size_delta |-> 0, file_sizes |-> ledger]

deleted_step_keeps_entry(ledger, path) ==
  [size_delta |-> -Get(ledger, path, 0), file_sizes |-> ledger]

deleted_step_forgets_size(ledger, path) ==
  [size_delta |-> 0, file_sizes |-> Del(ledger, path)]

\* Lines 146-158 ("deleted", "moved"): the last known size is taken off and
\* the file forgotten.
deleted_step(ledger, path) ==
  [size_delta |-> -Get(ledger, path, 0), file_sizes |-> Del(ledger, path)]

size_step_ignores_moved(ledger, event_type, path, fs) ==
  IF fs.is_dir \/ path = <<>> THEN [size_delta |-> 0, file_sizes |-> ledger]
  ELSE IF event_type \in {"created", "moved_to"} THEN created_step(ledger, path, fs)
  ELSE IF event_type = "modified" THEN modified_step(ledger, path, fs)
  ELSE IF event_type = "deleted" THEN deleted_step(ledger, path)
  ELSE [size_delta |-> 0, file_sizes |-> ledger]

size_step_ledgers_directories(ledger, event_type, path, fs) ==
  IF path = <<>> THEN [size_delta |-> 0, file_sizes |-> ledger]
  ELSE IF event_type \in {"created", "moved_to"} THEN created_step(ledger, path, fs)
  ELSE IF event_type = "modified" THEN modified_step(ledger, path, fs)
  ELSE IF event_type \in {"deleted", "moved"} THEN deleted_step(ledger, path)
  ELSE [size_delta |-> 0, file_sizes |-> ledger]

size_step_ignores_deleted(ledger, event_type, path, fs) ==
  IF fs.is_dir \/ path = <<>> THEN [size_delta |-> 0, file_sizes |-> ledger]
  ELSE IF event_type \in {"created", "moved_to"} THEN created_step(ledger, path, fs)
  ELSE IF event_type = "modified" THEN modified_step(ledger, path, fs)
  ELSE IF event_type = "moved" THEN deleted_step(ledger, path)
  ELSE [size_delta |-> 0, file_sizes |-> ledger]

\* Lines 125-169: the size delta of the event and the ledger after it.
\* "if file_path:" skips a directory (file_path is None) and an empty path.
size_step(ledger, event_type, path, fs) ==
  IF fs.is_dir \/ path = <<>> THEN [size_delta |-> 0, file_sizes |-> ledger]
  ELSE IF event_type \in {"created", "moved_to"} THEN created_step(ledger, path, fs)
  ELSE IF event_type = "modified" THEN modified_step(ledger, path, fs)
  ELSE IF event_type \in {"deleted", "moved"} THEN deleted_step(ledger, path)
  ELSE [size_delta |-> 0, file_sizes |-> ledger]

count_step_overwrites_delta(self, event_type, directory, now, size_delta) ==
  [self EXCEPT
     !.total_events = @ + 1,
     !.event_counts = Put(@, event_type, Get(@, event_type, 0) + 1),
     !.dir_changes = Put(@, directory, Get(@, directory, 0) + 1),
     !.dir_changes_keys = IF Has(self.dir_changes, directory) THEN @
                          ELSE Append(@, directory),
     !.dir_last_change = Put(@, directory, now),
     !.dir_size_deltas = Put(@, directory, size_delta)]

count_step_forgets_directories(self, event_type, directory, now, size_delta) ==
  [self EXCEPT
     !.total_events = @ + 1,
     !.event_counts = Put(@, event_type, Get(@, event_type, 0) + 1),
     !.dir_changes = Put(EmptyDict, directory, Get(@, directory, 0) + 1),
     !.dir_changes_keys = <<directory>>,
     !.dir_last_change = Put(@, directory, now),
     !.dir_size_deltas = Put(@, directory, Get(@, directory, 0) + size_delta)]

count_step_skips_kind(self, event_type, directory, now, size_delta) ==
  [self EXCEPT
     !.total_events = @ + 1,
     !.dir_changes = Put(@, directory, Get(@, directory, 0) + 1),
     !.dir_changes_keys = IF Has(self.dir_changes, directory) THEN @
                          ELSE Append(@, directory),
     !.dir_last_change = Put(@, directory, now),
     !.dir_size_deltas = Put(@, directory, Get(@, directory, 0) + size_delta)]

count_step_drops_delta(self, event_type, directory, now, size_delta) ==
  [self EXCEPT
     !.total_events = @ + 1,
     !.event_counts = Put(@, event_type, Get(@, event_type, 0) + 1),
     !.dir_changes = Put(@, directory, Get(@, directory, 0) + 1),
     !.dir_changes_keys = IF Has(self.dir_changes, directory) THEN @
                          ELSE Append(@, directory),
     !.dir_last_change = Put(@, directory, now),
     !.dir_size_deltas = Put(@, directory, Get(@, directory, 0))]

\* Lines 171-180: the counters, the directory's change count, last change
\* and cumulative delta.
count_step(self, event_type, directory, now, size_delta) ==
  [self EXCEPT
     !.total_events = @ + 1,
     !.event_counts = Put(@, event_type, Get(@, event_type, 0) + 1),
     !.dir_changes = Put(@, directory, Get(@, directory, 0) + 1),
     !.dir_changes_keys = IF Has(self.dir_changes, directory) THEN @
                          ELSE Append(@, directory),
     !.dir_last_change = Put(@, directory, now),
     !.dir_size_deltas = Put(@, directory, Get(@, directory, 0) + size_delta)]

\* Lines 182-190: the directory is probed when it is one.
probe_step(self, directory, fs) ==
  IF fs.dir_is_dir
  THEN [self EXCEPT
          !.dir_initial_sizes = IF Has(@, directory) THEN @
                                ELSE Put(@, directory, get_dir_size(fs.listing)),
          !.dir_sizes = Put(@, directory, get_dir_size(fs.listing))]
  ELSE self

deque_append_drops_newest(q, x, maxlen) ==
  IF maxlen = 0 THEN q
  ELSE IF Len(q) >= maxlen THEN Append(SubSeq(q, 1, Len(q) - 1), x)
  ELSE Append(q, x)

\* collections.deque(maxlen=maxlen).append(x), lines 85-87 and 193: a full
\* deque drops its oldest element; a deque of length 0 stays empty.
deque_append(q, x, maxlen) ==
  IF maxlen = 0 THEN q
  ELSE IF Len(q) >= maxlen THEN Append(Tail(q), x)
  ELSE Append(q, x)

\* Lines 104-193: the tracker after _record_change(event_type, path) at time
\* now, the filesystem answering fs.
record_change(self, event_type, path, now, fs) ==
  IF is_excluded(self.exclude_patterns, path)
  THEN excluded_step(self)
  ELSE
    LET directory == directory_of(path, fs)
        step == size_step(self.file_sizes, event_type, path, fs)
        ledgered == [self EXCEPT !.file_sizes = step.file_sizes]
        counted == count_step(ledgered, event_type, directory, now, step.size_delta)
        probed == probe_step(counted, directory, fs)
    IN [probed EXCEPT
          !.recent_events = deque_append(@, <<now, event_type, path, step.size_delta>>,
                                         self.max_history)]

\* ------------------------------------------------------------------- queries

abs(n) == IF n < 0 THEN -n ELSE n

\* Optional[int]: None is the empty sequence, an integer w is <<w>>.
None == <<>>
Some(w) == <<w>>

sort_key_signed(item) == item[5]

\* Lines 224 and 241: the sort key of an item, the absolute size delta.
sort_key(item) == abs(item[5])

insert_desc_before_equals(sorted, x) ==
  LET n == Cardinality({i \in 1..Len(sorted) : sort_key(sorted[i]) > sort_key(x)})
  IN SubSeq(sorted, 1, n) \o <<x>> \o SubSeq(sorted, n + 1, Len(sorted))

\* list.sort(key=..., reverse=True) is stable: an item goes behind every
\* item whose key is not smaller and that came before it.
insert_desc(sorted, x) ==
  LET n == Cardinality({i \in 1..Len(sorted) : sort_key(sorted[i]) >= sort_key(x)})
  IN SubSeq(sorted, 1, n) \o <<x>> \o SubSeq(sorted, n + 1, Len(sorted))

RECURSIVE sort_desc(_)
sort_desc(items) ==
  IF items = <<>> THEN <<>>
  ELSE insert_desc(sort_desc(SubSeq(items, 1, Len(items) - 1)), items[Len(items)])

\* Lines 214-220 and 230-236: the item of directory d.
item_of(self, d) ==
  <<d, self.dir_changes[d], self.dir_last_change[d],
    Get(self.dir_sizes, d, 0), Get(self.dir_size_deltas, d, 0)>>

in_window_strict(last_change, cutoff) == last_change > cutoff

\* Line 238: the directory changed within the window.
in_window(last_change, cutoff) == last_change >= cutoff

RECURSIVE items_of(_, _, _)
items_of(self, keys, cutoff) ==
  IF keys = <<>> THEN <<>>
  ELSE (IF cutoff = None \/ in_window(self.dir_last_change[Head(keys)], cutoff[1])
        THEN <<item_of(self, Head(keys))>> ELSE <<>>)
       \o items_of(self, Tail(keys), cutoff)

\* Lines 209-242: get_changed_dirs(since_minutes) called at time now.
get_changed_dirs(self, since_minutes, now) ==
  sort_desc(items_of(self, self.dir_changes_keys,
                     IF since_minutes = None THEN None ELSE Some(now - since_minutes[1])))

\* lst[start:] of a Python list: a negative start counts from the end.
slice_from(lst, start) ==
  LET n == Len(lst)
      from == IF start < 0 THEN (IF n + start < 0 THEN 0 ELSE n + start)
              ELSE (IF start > n THEN n ELSE start)
  IN SubSeq(lst, from + 1, n)

\* Lines 244-246: get_recent_events(count); -0 is 0.
get_recent_events(self, count) == slice_from(self.recent_events, -count)

\* ------------------------------------------------------------------ handlers

\* The answers a call can get: an excluded path asks the filesystem nothing.
AnswersFor(env, patterns, event_type, path) ==
  IF is_excluded(patterns, path) THEN {NoAnswers} ELSE env.answers[event_type]

\* The entry of calls for one _record_change call.
CallOf(self, event_type, path, now, fs) ==
  [event_type |-> event_type, path |-> path, now |-> now, fs |-> fs, before |-> self]

\* on_created, on_deleted, on_modified: one _record_change call each.
Handle(env, event_type) ==
  /\ Len(calls) + 1 <= env.max_records
  /\ \E path \in Paths :
       \E fs \in AnswersFor(env, exclude_patterns, event_type, path) :
         /\ Becomes(record_change(Self, event_type, path, clock, fs))
         /\ calls' = Append(calls, CallOf(Self, event_type, path, clock, fs))
  /\ UNCHANGED <<clock, thread_vars>>

on_created(env) == Handle(env, "created")

on_deleted(env) == Handle(env, "deleted")

on_modified(env) == Handle(env, "modified")

on_moved_stops_at_excluded_source(env) ==
  /\ Len(calls) + 2 <= env.max_records
  /\ \E src \in Paths, dest \in Paths, now2 \in {clock, clock + 1} :
       /\ dest # src
       /\ now2 <= env.max_time
       /\ \E fs1 \in AnswersFor(env, exclude_patterns, "moved", src),
             fs2 \in AnswersFor(env, exclude_patterns, "moved_to", dest) :
            LET mid == record_change(Self, "moved", src, clock, fs1)
            IN /\ Becomes(IF is_excluded(exclude_patterns, src) THEN mid
                          ELSE record_change(mid, "moved_to", dest, now2, fs2))
               /\ calls' = calls \o <<CallOf(Self, "moved", src, clock, fs1),
                                      CallOf(mid, "moved_to", dest, now2, fs2)>>
       /\ clock' = now2
  /\ UNCHANGED thread_vars

\* on_moved: "moved" on the source path, then "moved_to" on the destination
\* path (a watchdog moved event always has dest_path).  The clock may tick
\* between the two calls.
on_moved(env) ==
  /\ Len(calls) + 2 <= env.max_records
  /\ \E src \in Paths, dest \in Paths, now2 \in {clock, clock + 1} :
       /\ dest # src
       /\ now2 <= env.max_time
       /\ \E fs1 \in AnswersFor(env, exclude_patterns, "moved", src),
             fs2 \in AnswersFor(env, exclude_patterns, "moved_to", dest) :
            LET mid == record_change(Self, "moved", src, clock, fs1)
            IN /\ Becomes(record_change(mid, "moved_to", dest, now2, fs2))
               /\ calls' = calls \o <<CallOf(Self, "moved", src, clock, fs1),
                                      CallOf(mid, "moved_to", dest, now2, fs2)>>
       /\ clock' = now2
  /\ UNCHANGED thread_vars

\* Time passes.
Tick ==
  /\ clock < MaxTime
  /\ clock' = clock + 1
  /\ UNCHANGED <<tracker_vars, calls, thread_vars>>

\* The tracker under any filesystem, the clock running.
Next ==
  \/ on_created(AnyFs)
  \/ on_deleted(AnyFs)
  \/ on_modified(AnyFs)
  \/ on_moved(AnyFs)
  \/ Tick

Spec == Init /\ [][Next]_vars

\* The tracker over a steady filesystem, for longer runs; the clock ticks
\* only inside on_moved.
NextFiles ==
  \/ on_created(SteadyFs)
  \/ on_deleted(SteadyFs)
  \/ on_modified(SteadyFs)
  \/ on_moved(SteadyFs)

SpecFiles == Init /\ [][NextFiles]_vars

\* The tracker recording events in directories of any content.
NextProbe ==
  \/ on_created(ProbeFs)
  \/ on_deleted(ProbeFs)
  \/ on_modified(ProbeFs)
  \/ on_moved(ProbeFs)

SpecProbe == Init /\ [][NextProbe]_vars

\* ------------------------------------------------------------------- threads

\* main() starts the observer thread, which runs the handlers, and then
\* loops in create_display on the main thread.  No lock guards the tracker,
\* so the main thread may run between any two statements of
\* _record_change.  The statements are named by their source lines:
\*   l111  the exclusion check and, for a path not excluded, the size
\*         delta and the ledger update (lines 111-169)
\*   l172  total_events += 1
\*   l173  event_counts[event_type] += 1
\*   l174  dir_changes[directory] += 1
\*   l175  dir_last_change[directory] = now
\*   l178  dir_size_deltas[directory] += size_delta (lines 178-180)
\*   l183  the probe (lines 183-190)
\*   l193  recent_events.append(...)

\* --event-count, the default of get_recent_events' argument.
event_count == 20

ThreadFs == [SteadyFs EXCEPT !.max_records = MaxThreadRecords]

\* The observer thread entering _record_change(event_type, path) at time
\* now; todo: the calls the handler makes after this one.
Enter(event_type, path, now, fs, before, todo) ==
  [line |-> "l111", event_type |-> event_type, path |-> path, now |-> now,
   fs |-> fs, before |-> before, size_delta |-> 0, todo |-> todo]

\* The observer thread takes an event off its queue and calls the handler:
\* on_created, on_deleted, on_modified or on_moved.
dispatch(env) ==
  /\ watcher.line = "idle"
  /\ \E handler \in {"created", "deleted", "modified", "moved"} :
       IF handler = "moved"
       THEN /\ Len(calls) + 2 <= env.max_records
            /\ \E src \in Paths, dest \in Paths :
                 /\ dest # src
                 /\ \E fs1 \in AnswersFor(env, exclude_patterns, "moved", src),
                       fs2 \in AnswersFor(env, exclude_patterns, "moved_to", dest) :
                      watcher' = Enter("moved", src, clock, fs1, Self,
                                       <<[event_type |-> "moved_to", path |-> dest,
                                          fs |-> fs2]>>)
       ELSE /\ Len(calls) + 1 <= env.max_records
            /\ \E path \in Paths :
                 \E fs \in AnswersFor(env, exclude_patterns, handler, path) :
                   watcher' = Enter(handler, path, clock, fs, Self, <<>>)
  /\ UNCHANGED <<tracker_vars, clock, calls, display>>

\* One statement made the tracker s; the thread goes on to the next line.
Goes(s, line) ==
  /\ Becomes(s)
  /\ watcher' = [watcher EXCEPT !.line = line]
  /\ UNCHANGED calls

\* _record_change returns, leaving the tracker as s; the handler makes its
\* next call, if it has one.
Returns(s) ==
  /\ Becomes(s)
  /\ calls' = Append(calls, CallOf(watcher.before, watcher.event_type, watcher.path,
                                   watcher.now, watcher.fs))
  /\ watcher' = IF watcher.todo = <<>> THEN Idle
                ELSE Enter(Head(watcher.todo).event_type, Head(watcher.todo).path, clock,
                           Head(watcher.todo).fs, s, Tail(watcher.todo))

\* The observer thread runs the statement it is at.
statement ==
  /\ watcher.line # "idle"
  /\ LET w == watcher
         directory == directory_of(w.path, w.fs)
         counted == count_step(Self, w.event_type, directory, w.now, w.size_delta)
     IN CASE w.line = "l111" ->
               IF is_excluded(exclude_patterns, w.path)
               THEN Returns(excluded_step(Self))
               ELSE LET step == size_step(file_sizes, w.event_type, w.path, w.fs)
                    IN /\ Becomes([Self EXCEPT !.file_sizes = step.file_sizes])
                       /\ watcher' = [w EXCEPT !.line = "l172",
                                               !.size_delta = step.size_delta]
                       /\ UNCHANGED calls
          [] w.line = "l172" ->
               Goes([Self EXCEPT !.total_events = counted.total_events], "l173")
          [] w.line = "l173" ->
               Goes([Self EXCEPT !.event_counts = counted.event_counts], "l174")
          [] w.line = "l174" ->
               Goes([Self EXCEPT !.dir_changes = counted.dir_changes,
                                 !.dir_changes_keys = counted.dir_changes_keys], "l175")
          [] w.line = "l175" ->
               Goes([Self EXCEPT !.dir_last_change = counted.dir_last_change], "l178")
          [] w.line = "l178" ->
               Goes([Self EXCEPT !.dir_size_deltas = counted.dir_size_deltas], "l183")
          [] w.line = "l183" ->
               Goes(probe_step(Self, directory, w.fs), "l193")
          [] w.line = "l193" ->
               Returns([Self EXCEPT
                          !.recent_events =
                            deque_append(@, <<w.now, w.event_type, w.path, w.size_delta>>,
                                         max_history)])
  /\ UNCHANGED <<clock, display>>

\* What create_display reads off the tracker (lines 269-322):
\* total_events, event_counts, get_recent_events(args.event_count) and
\* get_changed_dirs(None), which raises KeyError at dir_last_change[d] for a
\* directory that has a change count and no last change yet.
display_values(self) ==
  LET raised == \E d \in DOMAIN self.dir_changes : ~Has(self.dir_last_change, d)
  IN [total_events |-> self.total_events,
      event_counts |-> self.event_counts,
      recent_events |-> get_recent_events(self, event_count),
      changed_dirs |-> IF raised THEN <<>> ELSE get_changed_dirs(self, None, clock),
      raised |-> raised]

\* The main thread's loop, lines 470-477: it reads the tracker as it is.
create_display ==
  /\ display' = <<display_values(Self)>>
  /\ UNCHANGED <<tracker_vars, clock, calls, watcher>>

\* The two threads of main().
NextThreads ==
  \/ dispatch(ThreadFs)
  \/ statement
  \/ create_display

SpecThreads == Init /\ [][NextThreads]_vars

\* -------------------------------------------------------------------- claims

\* The arguments the queries are checked with.
Windows == 0..MaxTime
Counts == 0..(MaxHistory + 1)

\* The tracker as call i left it.
After(i) == IF i < Len(calls) THEN calls[i + 1].before ELSE Self

\* Call i was made on an excluded path.
Excluded(i) == is_excluded(calls[i].before.exclude_patterns, calls[i].path)

\* The directory call i is attributed to: the path itself when it was a
\* directory, otherwise its parent.
DirectoryOfCall(i) ==
  IF calls[i].fs.is_dir THEN calls[i].path ELSE dirname(calls[i].path)

\* The last n elements of a sequence.
LastN(seq, n) == SubSeq(seq, (IF Len(seq) > n THEN Len(seq) - n ELSE 0) + 1, Len(seq))

\* Call i recorded the size delta x: x was added to its directory's
\* cumulative delta, and the history record of the call carries x.
Recorded(i, x) ==
  LET b == calls[i].before
      a == After(i)
      d == DirectoryOfCall(i)
  IN /\ Get(a.dir_size_deltas, d, 0) = Get(b.dir_size_deltas, d, 0) + x
     /\ a.max_history > 0 =>
          a.recent_events[Len(a.recent_events)] =
            <<calls[i].now, calls[i].event_type, calls[i].path, x>>

\* C1: a call on an excluded path, of any event type and in any state of
\* the tracker, adds one to excluded_events and changes nothing else: not
\* total_events, event_counts, any per-directory statistic, the ledger or
\* the history.
C1_ExcludedOnlyCounted ==
  \A i \in 1..Len(calls) :
    Excluded(i) =>
      LET b == calls[i].before
          a == After(i)
      IN /\ a.excluded_events = b.excluded_events + 1
         /\ a.total_events = b.total_events
         /\ a.event_counts = b.event_counts
         /\ a.dir_changes = b.dir_changes
         /\ a.dir_changes_keys = b.dir_changes_keys
         /\ a.dir_last_change = b.dir_last_change
         /\ a.dir_sizes = b.dir_sizes
         /\ a.dir_initial_sizes = b.dir_initial_sizes
         /\ a.dir_size_deltas = b.dir_size_deltas
         /\ a.file_sizes = b.file_sizes
         /\ a.recent_events = b.recent_events

\* An excluded call was made on a tracker that had already recorded an event
\* with a size and a history record.
C1_Witness ==
  \E i \in 1..Len(calls) :
    /\ Excluded(i)
    /\ calls[i].before.total_events > 0
    /\ calls[i].before.file_sizes # EmptyDict
    /\ calls[i].before.recent_events # <<>>
    /\ excluded_events > 0

\* The file of a call was there with a readable size.
SizeRead(fs) == ~fs.is_dir /\ fs.exists /\ fs.stat_ok

\* C2: from any state of the tracker, "created" (the file having size s1),
\* "modified" (size s2) and "deleted" recorded in this order on one
\* non-excluded file path leave the cumulative size delta of the parent
\* directory at the value it had before the three events, for all s1, s2.
C2_CreateModifyDeleteNetsZero ==
  \A p \in Paths :
    ~is_excluded(exclude_patterns, p) =>
      \A f1 \in SteadyAnswers("created"), f2 \in SteadyAnswers("modified"),
         f3 \in SteadyAnswers("deleted") :
        (SizeRead(f1) /\ SizeRead(f2) /\ ~f3.is_dir) =>
          LET s1 == record_change(Self, "created", p, clock, f1)
              s2 == record_change(s1, "modified", p, clock, f2)
              s3 == record_change(s2, "deleted", p, clock, f3)
          IN Get(s3.dir_size_deltas, dirname(p), 0) = Get(dir_size_deltas, dirname(p), 0)

\* The three events were recorded one after the other on one file whose
\* size changed from s1 > 0 to another s2, and the directory's delta is
\* back at what it was.
C2_Witness ==
  \E i \in 1..(Len(calls) - 2) :
    /\ calls[i].event_type = "created" /\ SizeRead(calls[i].fs)
    /\ calls[i + 1].event_type = "modified" /\ SizeRead(calls[i + 1].fs)
    /\ calls[i + 2].event_type = "deleted" /\ ~calls[i + 2].fs.is_dir
    /\ calls[i + 1].path = calls[i].path /\ calls[i + 2].path = calls[i].path
    /\ ~Excluded(i)
    /\ calls[i].fs.size > 0 /\ calls[i + 1].fs.size # calls[i].fs.size
    /\ Get(After(i).dir_size_deltas, dirname(calls[i].path), 0) > 0
    /\ Get(After(i + 2).dir_size_deltas, dirname(calls[i].path), 0) =
         Get(calls[i].before.dir_size_deltas, dirname(calls[i].path), 0)

\* Calls i and i + 1 are the two halves of a rename of a file from one
\* directory to another: "moved" on the source, "moved_to" on the
\* destination, neither path excluded nor a directory, the destination
\* there with a readable size.
CrossRename(i) ==
  /\ i + 1 <= Len(calls)
  /\ calls[i].event_type = "moved" /\ calls[i + 1].event_type = "moved_to"
  /\ ~Excluded(i) /\ ~Excluded(i + 1)
  /\ ~calls[i].fs.is_dir /\ SizeRead(calls[i + 1].fs)
  /\ dirname(calls[i].path) # dirname(calls[i + 1].path)

\* After the rename of calls i, i + 1 the source directory's cumulative
\* delta is down by s, the destination directory's up by s, and two more
\* events are counted.
RenameMoves(i, s) ==
  LET b == calls[i].before
      a == After(i + 1)
      A == dirname(calls[i].path)
      B == dirname(calls[i + 1].path)
  IN /\ Get(a.dir_size_deltas, A, 0) = Get(b.dir_size_deltas, A, 0) - s
     /\ Get(a.dir_size_deltas, B, 0) = Get(b.dir_size_deltas, B, 0) + s
     /\ a.total_events = b.total_events + 2

\* C3 as stated: a rename of a file of size s from directory A to another
\* directory B takes s off A's cumulative delta, adds s to B's and counts
\* two events.  It fails for a source the ledger does not know, or knows
\* with another size.
C3_RenameMovesFileSize ==
  \A i \in 1..Len(calls) :
    CrossRename(i) => RenameMoves(i, calls[i + 1].fs.size)

\* C3, amended: the same when the ledger holds the source path with the
\* size s the file has at its destination.
C3_RenameMovesKnownSize ==
  \A i \in 1..Len(calls) :
    (/\ CrossRename(i)
     /\ Has(calls[i].before.file_sizes, calls[i].path)
     /\ calls[i].before.file_sizes[calls[i].path] = calls[i + 1].fs.size)
    => RenameMoves(i, calls[i + 1].fs.size)

\* A file the ledger knows with a size s > 0 was renamed across directories.
C3_Witness ==
  \E i \in 1..Len(calls) :
    /\ CrossRename(i)
    /\ Has(calls[i].before.file_sizes, calls[i].path)
    /\ calls[i].before.file_sizes[calls[i].path] = calls[i + 1].fs.size
    /\ calls[i + 1].fs.size > 0
    /\ total_events = calls[i].before.total_events + 2

\* The record line 193 appends for call i.
RecordOf(i) ==
  <<calls[i].now, calls[i].event_type, calls[i].path,
    size_step(calls[i].before.file_sizes, calls[i].event_type, calls[i].path,
              calls[i].fs).size_delta>>

\* The records of the non-excluded calls 1..n, in arrival order.
RECURSIVE Arrivals(_)
Arrivals(n) ==
  IF n = 0 THEN <<>>
  ELSE Arrivals(n - 1) \o (IF Excluded(n) THEN <<>> ELSE <<RecordOf(n)>>)

\* C4: the history never holds more than max_history records, and it holds
\* exactly the last max_history records of the non-excluded events recorded
\* so far, in arrival order: all of them up to max_history events, the
\* oldest dropped first after that.
C4_HistoryIsLastCapacity ==
  /\ Len(recent_events) <= max_history
  /\ recent_events = LastN(Arrivals(Len(calls)), max_history)

\* More events than the largest capacity were recorded, no two alike, and
\* the history is full.
C4_Witness ==
  /\ max_history = MaxHistory
  /\ Len(Arrivals(Len(calls))) > max_history
  /\ Len(recent_events) = max_history
  /\ \A i, j \in 1..Len(calls) : i # j => RecordOf(i) # RecordOf(j)

\* C5 as stated: for every n >= 0, get_recent_events(n) returns the last
\* min(n, len(history)) records in arrival order.  list[-0:] is the whole
\* list, so n = 0 returns every record.
C5_RecentReturnsLastN ==
  \A n \in Counts :
    get_recent_events(Self, n) =
      LastN(recent_events, IF n < Len(recent_events) THEN n ELSE Len(recent_events))

\* The arguments get_changed_dirs is called with.
Since == {None} \cup {Some(w) : w \in Windows}

\* C6: whatever the window, the directories of a get_changed_dirs result
\* come in order of non-increasing absolute cumulative size delta.
C6_SortedByAbsDelta ==
  \A since \in Since :
    LET r == get_changed_dirs(Self, since, clock)
    IN \A i \in 1..(Len(r) - 1) :
         abs(dir_size_deltas[r[i][1]]) >= abs(dir_size_deltas[r[i + 1][1]])

\* A directory that shrank is listed before one that changed less, though
\* it was recorded after it.
C6_Witness ==
  LET r == get_changed_dirs(Self, None, clock)
  IN /\ Len(r) >= 2
     /\ r[1][5] < 0
     /\ abs(r[2][5]) < abs(r[1][5])
     /\ dir_changes_keys[1] = r[2][1]

\* The directories of a result.
DirsOf(r) == {r[i][1] : i \in 1..Len(r)}

\* C7: get_changed_dirs(w) returns exactly the recorded directories whose
\* last change is not older than now - w, each once; without a window it
\* returns every recorded directory.
C7_WindowFilter ==
  /\ \A w \in Windows :
       LET r == get_changed_dirs(Self, Some(w), clock)
           inside == {d \in DOMAIN dir_changes : dir_last_change[d] >= clock - w}
       IN DirsOf(r) = inside /\ Len(r) = Cardinality(inside)
  /\ LET r == get_changed_dirs(Self, None, clock)
     IN DirsOf(r) = DOMAIN dir_changes /\ Len(r) = Cardinality(DOMAIN dir_changes)

\* A window that keeps a directory changed exactly at its cutoff and leaves
\* out one changed before it.
C7_Witness ==
  \E w \in Windows :
    LET r == get_changed_dirs(Self, Some(w), clock)
    IN /\ \E d \in DirsOf(r) : dir_last_change[d] = clock - w
       /\ \E d \in DOMAIN dir_changes : d \notin DirsOf(r) /\ dir_last_change[d] < clock - w

\* C8: a call on a path that is not excluded adds exactly one to
\* total_events, to the count of its event type and to the change count of
\* one directory, the path itself when it is a directory and its parent
\* otherwise; it sets that directory's last change to the time of the
\* event, and changes no other event type's count and no other
\* directory's change count.
C8_CountsOneEvent ==
  \A i \in 1..Len(calls) :
    ~Excluded(i) =>
      LET b == calls[i].before
          a == After(i)
          t == calls[i].event_type
          d == DirectoryOfCall(i)
      IN /\ a.total_events = b.total_events + 1
         /\ DOMAIN a.event_counts = DOMAIN b.event_counts \cup {t}
         /\ a.event_counts[t] = Get(b.event_counts, t, 0) + 1
         /\ \A u \in DOMAIN b.event_counts \ {t} : a.event_counts[u] = b.event_counts[u]
         /\ DOMAIN a.dir_changes = DOMAIN b.dir_changes \cup {d}
         /\ a.dir_changes[d] = Get(b.dir_changes, d, 0) + 1
         /\ \A e \in DOMAIN b.dir_changes \ {d} : a.dir_changes[e] = b.dir_changes[e]
         /\ a.dir_last_change[d] = calls[i].now
         /\ a.excluded_events = b.excluded_events

\* An event on a path that was a directory was counted for that path, after
\* an event on a file had been counted for the file's parent, at an earlier
\* time.
C8_Witness ==
  \E i, j \in 1..Len(calls) :
    /\ i < j
    /\ ~Excluded(i) /\ ~calls[i].fs.is_dir
    /\ ~Excluded(j) /\ calls[j].fs.is_dir
    /\ calls[i].now < calls[j].now
    /\ dir_changes[dirname(calls[i].path)] = 1
    /\ dir_changes[calls[j].path] = 1
    /\ total_events = 2

\* C9: "modified" on a file that is there with size s records the delta
\* s - ledger[path] when the ledger knows the path and 0 when it does not,
\* and leaves ledger[path] = s either way.
C9_ModifiedDelta ==
  \A i \in 1..Len(calls) :
    (calls[i].event_type = "modified" /\ ~Excluded(i) /\ SizeRead(calls[i].fs)) =>
      LET b == calls[i].before
          a == After(i)
          p == calls[i].path
          s == calls[i].fs.size
      IN /\ Recorded(i, IF Has(b.file_sizes, p) THEN s - b.file_sizes[p] ELSE 0)
         /\ Has(a.file_sizes, p) /\ a.file_sizes[p] = s

\* A file the ledger did not know was modified with a size above 0, then
\* modified again with another size.
C9_Witness ==
  \E i, j \in 1..Len(calls) :
    /\ calls[i].event_type = "modified" /\ ~Excluded(i) /\ SizeRead(calls[i].fs)
    /\ ~Has(calls[i].before.file_sizes, calls[i].path) /\ calls[i].fs.size > 0
    /\ calls[j].event_type = "modified" /\ ~Excluded(j) /\ SizeRead(calls[j].fs)
    /\ Has(calls[j].before.file_sizes, calls[j].path)
    /\ calls[j].before.file_sizes[calls[j].path] # calls[j].fs.size

\* Call i took the ledger's size of its path off and forgot the path.
DebitsAndForgets(i) ==
  /\ Recorded(i, -Get(calls[i].before.file_sizes, calls[i].path, 0))
  /\ ~Has(After(i).file_sizes, calls[i].path)

\* C10 as stated: "deleted" or "moved" on a path records minus the ledger's
\* size of the path (0 when the ledger does not know it) and leaves the
\* ledger without the path.  It fails when the path is a directory at
\* record time and the ledger still knows it as a file.
C10_DeletedDebitsLedger ==
  \A i \in 1..Len(calls) :
    (calls[i].event_type \in {"deleted", "moved"} /\ ~Excluded(i)) => DebitsAndForgets(i)

\* C10, amended: the same for a path that is not a directory at record
\* time.
C10_DeletedFileDebitsLedger ==
  \A i \in 1..Len(calls) :
    (calls[i].event_type \in {"deleted", "moved"} /\ ~Excluded(i) /\ ~calls[i].fs.is_dir)
    => DebitsAndForgets(i)

\* A file the ledger knew with a size above 0 was deleted or moved away.
C10_Witness ==
  \E i \in 1..Len(calls) :
    /\ calls[i].event_type \in {"deleted", "moved"}
    /\ ~Excluded(i) /\ ~calls[i].fs.is_dir
    /\ Has(calls[i].before.file_sizes, calls[i].path)
    /\ calls[i].before.file_sizes[calls[i].path] > 0
    /\ ~Has(After(i).file_sizes, calls[i].path)

\* Call i is a non-excluded "created" or "moved_to" on a path that is not a
\* directory.
FileArrives(i) ==
  /\ calls[i].event_type \in {"created", "moved_to"}
  /\ ~Excluded(i)
  /\ ~calls[i].fs.is_dir

\* C11: "created" or "moved_to" on a file path records the file's size as
\* the delta and sets ledger[path] to it when the file is there; when the
\* file is missing it records delta 0 and leaves the ledger as it was, and
\* the event is still counted and appended to the history.
C11_CreatedDelta ==
  \A i \in 1..Len(calls) :
    FileArrives(i) =>
      LET b == calls[i].before
          a == After(i)
          p == calls[i].path
          fs == calls[i].fs
      IN /\ SizeRead(fs) =>
              /\ Recorded(i, fs.size)
              /\ a.file_sizes = Put(b.file_sizes, p, fs.size)
         /\ ~fs.exists =>
              /\ Recorded(i, 0)
              /\ a.file_sizes = b.file_sizes
              /\ a.total_events = b.total_events + 1
              /\ a.recent_events =
                   LastN(Append(b.recent_events, <<calls[i].now, calls[i].event_type, p, 0>>),
                         a.max_history)

\* A file arrived by "created" with a size above 0, and a "moved_to" was
\* recorded on a missing file while the ledger and the history held
\* something.
C11_Witness ==
  \E i, j \in 1..Len(calls) :
    /\ FileArrives(i) /\ calls[i].event_type = "created"
    /\ SizeRead(calls[i].fs) /\ calls[i].fs.size > 0
    /\ After(i).file_sizes[calls[i].path] = calls[i].fs.size
    /\ FileArrives(j) /\ calls[j].event_type = "moved_to"
    /\ ~calls[j].fs.exists
    /\ calls[j].before.file_sizes # EmptyDict
    /\ After(j).recent_events # <<>>

\* C12: an event of any type on a path that is a directory at record time
\* is counted for that path itself, not for its parent, records the size
\* delta 0 and leaves the ledger as it was.
C12_DirectoryEvent ==
  \A i \in 1..Len(calls) :
    (~Excluded(i) /\ calls[i].fs.is_dir) =>
      LET b == calls[i].before
          a == After(i)
          p == calls[i].path
      IN /\ a.dir_changes[p] = Get(b.dir_changes, p, 0) + 1
         /\ Get(a.dir_changes, dirname(p), 0) = Get(b.dir_changes, dirname(p), 0)
         /\ Get(a.dir_size_deltas, p, 0) = Get(b.dir_size_deltas, p, 0)
         /\ a.max_history > 0 =>
              a.recent_events[Len(a.recent_events)] =
                <<calls[i].now, calls[i].event_type, p, 0>>
         /\ a.file_sizes = b.file_sizes

\* A "deleted" was recorded on a path that was a directory by then, while
\* the ledger knew the path as a file with a size above 0.
C12_Witness ==
  \E i \in 1..Len(calls) :
    /\ ~Excluded(i) /\ calls[i].fs.is_dir
    /\ calls[i].event_type = "deleted"
    /\ Has(calls[i].before.file_sizes, calls[i].path)
    /\ calls[i].before.file_sizes[calls[i].path] > 0
    /\ After(i).dir_changes[calls[i].path] = 1

\* The bytes of the entries S of a listing that are regular files whose
\* stat succeeds; every other entry counts 0.
RECURSIVE RegularFileBytes(_, _)
RegularFileBytes(entries, S) ==
  IF S = {} THEN 0
  ELSE LET k == CHOOSE k \in S : TRUE
       IN (IF \E n \in 0..MaxSize : entries[k] = File(n) THEN entries[k].st_size ELSE 0)
          + RegularFileBytes(entries, S \ {k})

\* Call i probed its directory.
Probed(i) == ~Excluded(i) /\ calls[i].fs.dir_is_dir

\* C13: the size get_dir_size finds for a directory is the sum of the sizes
\* of its immediate regular files: a subdirectory, a symbolic link and an
\* entry whose stat fails count 0 and do not stop the sum (so a directory
\* of subdirectories only has size 0), and a directory that cannot be
\* opened has size 0.
C13_ProbeSumsRegularFiles ==
  \A i \in 1..Len(calls) :
    Probed(i) =>
      LET l == calls[i].fs.listing
          size == After(i).dir_sizes[DirectoryOfCall(i)]
      IN /\ l.open_ok => size = RegularFileBytes(l.entries, DOMAIN l.entries)
         /\ ~l.open_ok => size = 0
         /\ (l.open_ok /\ \A k \in DOMAIN l.entries : l.entries[k] = SubDir) => size = 0

\* A directory of subdirectories only was probed as 0, and a directory
\* whose first entry's stat fails and whose second is a file of a size
\* above 0 was probed as that size.
C13_Witness ==
  \E i, j \in 1..Len(calls) :
    /\ Probed(i) /\ Probed(j)
    /\ calls[i].fs.listing = [open_ok |-> TRUE, entries |-> <<SubDir, SubDir>>]
    /\ After(i).dir_sizes[DirectoryOfCall(i)] = 0
    /\ calls[j].fs.listing = [open_ok |-> TRUE, entries |-> <<Vanished, File(MaxSize)>>]
    /\ After(j).dir_sizes[DirectoryOfCall(j)] = MaxSize

\* The probe of call i failed: the directory was gone, or was there and
\* could not be opened.
ProbeFailed(i) ==
  ~Excluded(i) /\ (~calls[i].fs.dir_is_dir \/ ~calls[i].fs.listing.open_ok)

\* C14 as stated: when the probe of the event's directory fails, the
\* current size and initial size the tracker holds for the directory stay
\* as they were before the event.  A directory that is there but cannot be opened is probed as 0,
\* and that 0 is stored.
C14_ProbeFailureKeepsSizes ==
  \A i \in 1..Len(calls) :
    ProbeFailed(i) =>
      LET b == calls[i].before
          a == After(i)
          d == DirectoryOfCall(i)
      IN /\ Has(b.dir_sizes, d) => a.dir_sizes[d] = b.dir_sizes[d]
         /\ Has(b.dir_initial_sizes, d) => a.dir_initial_sizes[d] = b.dir_initial_sizes[d]

\* C16 as stated: no tracker whose history capacity is 0 or less records an
\* event.  Capacity 0 is constructed and records.
C16_CapacityIsPositive ==
  calls # <<>> => max_history > 0

\* The statements of a call, run one at a time, make what record_change
\* makes: every call found the tracker as the call before it left it.
StatementsMakeTheCall ==
  \A i \in 1..Len(calls) :
    (i < Len(calls) \/ watcher.line = "idle") =>
      After(i) = record_change(calls[i].before, calls[i].event_type, calls[i].path,
                               calls[i].now, calls[i].fs)

\* The trackers a reader may see if every event is applied as one unit: the
\* tracker as each call found it, and as the last completed call left it.
Snapshots ==
  {calls[i].before : i \in 1..Len(calls)}
    \cup {IF watcher.line = "idle" THEN Self ELSE watcher.before}

\* C15 as stated: what a query reads while the observer thread records is
\* the tracker as some number of whole events left it: the counters, the
\* directories' statistics and the history all show the same events.
\* Nothing keeps the main thread from reading between two statements of
\* _record_change.
C15_QueriesSeeWholeEvents ==
  display # <<>> => \E s \in Snapshots : display[1] = display_values(s)

\* The non-excluded calls among 1..n that were counted for directory d.
EventsOf(d, n) == {i \in 1..n : ~Excluded(i) /\ DirectoryOfCall(i) = d}

\* The sum of the size deltas of the events in S.
RECURSIVE SumOfDeltas(_)
SumOfDeltas(S) ==
  IF S = {} THEN 0
  ELSE LET i == CHOOSE i \in S : TRUE
       IN RecordOf(i)[4] + SumOfDeltas(S \ {i})

\* C17: after every completed call, the cumulative size delta of each
\* directory is the sum of the size deltas of all events recorded for it
\* since construction, those the history has dropped included.
C17_DeltaIsSumOfEvents ==
  /\ DOMAIN dir_size_deltas = {DirectoryOfCall(i) : i \in {j \in 1..Len(calls) : ~Excluded(j)}}
  /\ \A d \in DOMAIN dir_size_deltas :
       dir_size_deltas[d] = SumOfDeltas(EventsOf(d, Len(calls)))

\* A directory has a cumulative delta other than 0 made of two events with
\* deltas other than 0, and the history has dropped an event.
C17_Witness ==
  \E d \in DOMAIN dir_size_deltas :
    /\ Cardinality({i \in EventsOf(d, Len(calls)) : RecordOf(i)[4] # 0}) >= 2
    /\ dir_size_deltas[d] # 0
    /\ max_history > 0
    /\ Len(Arrivals(Len(calls))) > Len(recent_events)
    /\ \E i \in EventsOf(d, Len(calls)) :
         RecordOf(i)[4] # 0 /\ \A k \in 1..Len(recent_events) : recent_events[k] # RecordOf(i)

\* Call i is a non-excluded "created", "modified" or "moved_to" on path p.
Observes(i, p) ==
  /\ calls[i].path = p
  /\ calls[i].event_type \in {"created", "modified", "moved_to"}
  /\ ~Excluded(i)

\* Call i is a "deleted" or "moved" on path p.
Removes(i, p) ==
  /\ calls[i].path = p
  /\ calls[i].event_type \in {"deleted", "moved"}

\* C18 as stated: the ledger holds a path only if a non-excluded "created",
\* "modified" or "moved_to" on it was recorded and no "deleted" or "moved"
\* on it was recorded after the last of them.  A "deleted" recorded while
\* the path is a directory leaves the entry in the ledger.
C18_LedgerOnlyObserved ==
  \A p \in DOMAIN file_sizes :
    \E i \in 1..Len(calls) :
      /\ Observes(i, p)
      /\ \A j \in (i + 1)..Len(calls) : ~Removes(j, p)

\* C18, amended: the same, counting only the "deleted" and "moved" events
\* recorded while the path was not a directory.
C18_LedgerOnlyObservedFiles ==
  \A p \in DOMAIN file_sizes :
    \E i \in 1..Len(calls) :
      /\ Observes(i, p)
      /\ \A j \in (i + 1)..Len(calls) : ~(Removes(j, p) /\ ~calls[j].fs.is_dir)

\* The ledger holds a path with a size above 0 that was deleted or moved
\* away as a file before the event that put it there.
C18_Witness ==
  \E p \in DOMAIN file_sizes :
    \E i, j \in 1..Len(calls) :
      /\ i < j
      /\ Removes(i, p) /\ ~Excluded(i) /\ ~calls[i].fs.is_dir
      /\ Observes(j, p) /\ SizeRead(calls[j].fs)
      /\ file_sizes[p] > 0

\* Calls i and i + 1 are the two halves of a rename of a file within one
\* directory: "moved" on the old name, "moved_to" on the new name, neither
\* excluded nor a directory, the file there under its new name with a
\* readable size.
SameDirRename(i) ==
  /\ i + 1 <= Len(calls)
  /\ calls[i].event_type = "moved" /\ calls[i + 1].event_type = "moved_to"
  /\ ~Excluded(i) /\ ~Excluded(i + 1)
  /\ ~calls[i].fs.is_dir /\ SizeRead(calls[i + 1].fs)
  /\ dirname(calls[i].path) = dirname(calls[i + 1].path)

\* After the rename of calls i, i + 1 the directory's cumulative delta is
\* where it was and the history has taken two more records, one for each
\* half, dropping its oldest beyond max_history.
RenameNetsZero(i) ==
  LET b == calls[i].before
      a == After(i + 1)
      D == dirname(calls[i].path)
  IN /\ Get(a.dir_size_deltas, D, 0) = Get(b.dir_size_deltas, D, 0)
     /\ \E x, y \in (-MaxSize)..MaxSize :
          a.recent_events =
            LastN(b.recent_events \o
                    <<<<calls[i].now, "moved", calls[i].path, x>>,
                      <<calls[i + 1].now, "moved_to", calls[i + 1].path, y>>>>,
                  a.max_history)

\* C19 as stated: a rename of a file within one directory D, its size
\* unchanged, leaves D's cumulative delta where it was and appends two
\* history records.  It fails for a file the ledger does not know: nothing
\* is taken off for the old name and the size is added for the new one.
C19_SameDirRenameNetsZero ==
  \A i \in 1..Len(calls) :
    SameDirRename(i) => RenameNetsZero(i)

\* C19, amended: the same when the ledger holds the old name with the size
\* the file has under its new name.
C19_KnownSameDirRenameNetsZero ==
  \A i \in 1..Len(calls) :
    (/\ SameDirRename(i)
     /\ Has(calls[i].before.file_sizes, calls[i].path)
     /\ calls[i].before.file_sizes[calls[i].path] = calls[i + 1].fs.size)
    => RenameNetsZero(i)

\* A file the ledger knows with a size above 0 was renamed within its
\* directory, whose cumulative delta was not 0, and the history holds the
\* two records of the rename.
C19_Witness ==
  \E i \in 1..Len(calls) :
    /\ SameDirRename(i)
    /\ Has(calls[i].before.file_sizes, calls[i].path)
    /\ calls[i].before.file_sizes[calls[i].path] = calls[i + 1].fs.size
    /\ calls[i + 1].fs.size > 0
    /\ i + 1 = Len(calls)
    /\ dir_size_deltas[dirname(calls[i].path)] > 0
    /\ Len(recent_events) >= 2
    /\ recent_events[Len(recent_events) - 1][2] = "moved"
    /\ recent_events[Len(recent_events)][2] = "moved_to"

\* The size read of call i did not give a size: the file was missing, or
\* was there at os.path.exists and os.path.getsize raised (it vanished in
\* between, or stat was denied).
SizeReadFailed(i) ==
  /\ ReadsSize(calls[i].event_type)
  /\ ~calls[i].fs.is_dir
  /\ ~(calls[i].fs.exists /\ calls[i].fs.stat_ok)

\* Call i met a file that was missing or whose size was unreadable.
Faulted(i) ==
  ~calls[i].fs.is_dir /\ ~(calls[i].fs.exists /\ calls[i].fs.stat_ok)

\* Call i was counted and its record, with some size delta, appended to the
\* history.
CountedAndAppended(i) ==
  LET b == calls[i].before
      a == After(i)
  IN /\ a.total_events = b.total_events + 1
     /\ a.dir_changes[DirectoryOfCall(i)] = Get(b.dir_changes, DirectoryOfCall(i), 0) + 1
     /\ \E x \in (-MaxSize)..MaxSize :
          a.recent_events =
            LastN(Append(b.recent_events,
                         <<calls[i].now, calls[i].event_type, calls[i].path, x>>),
                  a.max_history)

\* C20 as stated: whatever the event type, a call that meets a missing
\* file or an unreadable size is counted and appended to the history with
\* delta 0.  "deleted" and "moved" read no size: on a missing file they
\* record minus the ledger's size of the path.
C20_FaultsRecordZero ==
  \A i \in 1..Len(calls) :
    (~Excluded(i) /\ Faulted(i)) => (CountedAndAppended(i) /\ Recorded(i, 0))

\* C20, amended: every call on a path not excluded, of any event type and
\* under any filesystem condition, is counted and appended to the history;
\* a "created", "modified" or "moved_to" whose size read fails records
\* delta 0 and leaves the ledger as it was; a directory that is gone leaves
\* the directory's sizes as they were.
C20_RecordNeverFails ==
  \A i \in 1..Len(calls) :
    ~Excluded(i) =>
      LET b == calls[i].before
          a == After(i)
      IN /\ CountedAndAppended(i)
         /\ SizeReadFailed(i) => (Recorded(i, 0) /\ a.file_sizes = b.file_sizes)
         /\ ~calls[i].fs.dir_is_dir =>
              (a.dir_sizes = b.dir_sizes /\ a.dir_initial_sizes = b.dir_initial_sizes)

\* A "modified" found its file at os.path.exists and could not read its
\* size, its directory gone too, while the ledger held the file with a size
\* above 0; the ledger still holds that size and the event is counted.
C20_Witness ==
  \E i \in 1..Len(calls) :
    /\ ~Excluded(i)
    /\ calls[i].event_type = "modified"
    /\ calls[i].fs.exists /\ ~calls[i].fs.stat_ok
    /\ ~calls[i].fs.dir_is_dir
    /\ Has(calls[i].before.file_sizes, calls[i].path)
    /\ calls[i].before.file_sizes[calls[i].path] > 0
    /\ After(i).file_sizes = calls[i].before.file_sizes
    /\ After(i).total_events = calls[i].before.total_events + 1

\* An earlier call than i recorded the path of call i as a directory.
KnownAsDirectory(i) ==
  \E j \in 1..(i - 1) :
    calls[j].path = calls[i].path /\ ~Excluded(j) /\ calls[j].fs.is_dir

\* C21 as stated: a "deleted" or "moved" on a path that is no longer there
\* is counted for the path's parent, unless an earlier event recorded the
\* path as a directory: then it is counted for the path itself.  The
\* tracker keeps no record of which paths were directories:
\* os.path.isdir(path) alone decides, and it is false for a path that is
\* gone.
C21_GonePathClassified ==
  \A i \in 1..Len(calls) :
    (/\ calls[i].event_type \in {"deleted", "moved"}
     /\ ~Excluded(i)
     /\ ~calls[i].fs.is_dir)
    => LET d == IF KnownAsDirectory(i) THEN calls[i].path ELSE dirname(calls[i].path)
       IN After(i).dir_changes = Put(calls[i].before.dir_changes, d,
                                     Get(calls[i].before.dir_changes, d, 0) + 1)

\* The place of directory d in the insertion order of dir_changes.
InsertionIndex(d) == CHOOSE k \in 1..Len(dir_changes_keys) : dir_changes_keys[k] = d

\* C22: in a get_changed_dirs result, with or without a window, two
\* directories of equal absolute cumulative delta come in the order in
\* which they were first recorded.
C22_TiesKeepInsertionOrder ==
  \A since \in Since :
    LET r == get_changed_dirs(Self, since, clock)
    IN \A i, j \in 1..Len(r) :
         (i < j /\ abs(r[i][5]) = abs(r[j][5])) =>
           InsertionIndex(r[i][1]) < InsertionIndex(r[j][1])

\* Two directories whose cumulative deltas are -x and +x, x above 0, are
\* listed in the order they were first recorded.
C22_Witness ==
  LET r == get_changed_dirs(Self, None, clock)
  IN /\ Len(r) = 2
     /\ r[1][5] # 0
     /\ r[1][5] = -r[2][5]
     /\ dir_changes_keys = <<r[1][1], r[2][1]>>

\* The directories an unwindowed get_changed_dirs returns.
ListedDirs == DirsOf(get_changed_dirs(Self, None, clock))

\* The directories the non-excluded calls so far were counted for.
CountedDirs == {DirectoryOfCall(i) : i \in {j \in 1..Len(calls) : ~Excluded(j)}}

\* C23: a directory is recorded from the first non-excluded event counted
\* for it, and never dropped: the recorded directories are exactly those
\* of the non-excluded calls so far, no step takes one away, and a
\* directory an unwindowed get_changed_dirs returns is returned by every
\* later one.
C23_DirectoriesOnlyGrow ==
  [][/\ DOMAIN dir_changes \subseteq (DOMAIN dir_changes)'
     /\ \A before \in {Self}, after \in {Self'} :
          DirsOf(get_changed_dirs(before, None, clock))
            \subseteq DirsOf(get_changed_dirs(after, None, clock'))
     /\ (DOMAIN dir_changes)' = CountedDirs']_vars

\* A second directory was recorded after a first, later events were
\* excluded or counted for the first again, and both are listed.
C23_Witness ==
  /\ Len(calls) >= 2
  /\ ~Excluded(1)
  /\ \E i \in 2..Len(calls) :
       ~Excluded(i) /\ DirectoryOfCall(i) # DirectoryOfCall(1)
  /\ ListedDirs = CountedDirs
  /\ Cardinality(ListedDirs) >= 2

\* The probe of call i read the directory's size.
ProbeSucceeded(i) ==
  ~Excluded(i) /\ calls[i].fs.dir_is_dir /\ calls[i].fs.listing.open_ok

\* The last element of a non-empty set of call numbers.
Latest(S) == CHOOSE i \in S : \A j \in S : j <= i

\* The first element of a non-empty set of call numbers.
Earliest(S) == CHOOSE i \in S : \A j \in S : i <= j

\* C24 as stated: a directory's initial size is the size probed at the
\* first event recorded for it, and no later event changes it; its current
\* size is the size probed at the latest of its events whose probe
\* succeeded.  A probe that fails on a directory that is still there
\* stores 0 as the current size.
C24_InitialOnceCurrentLatest ==
  \A d \in DOMAIN dir_changes :
    LET E == EventsOf(d, Len(calls))
        ok == {i \in E : ProbeSucceeded(i)}
    IN /\ ProbeSucceeded(Earliest(E)) =>
            dir_initial_sizes[d] = get_dir_size(calls[Earliest(E)].fs.listing)
       /\ \A i \in E :
            Has(calls[i].before.dir_initial_sizes, d) =>
              After(i).dir_initial_sizes[d] = calls[i].before.dir_initial_sizes[d]
       /\ ok # {} => dir_sizes[d] = get_dir_size(calls[Latest(ok)].fs.listing)

\* The sum of the values of a dict of integers.
RECURSIVE SumOfValues(_)
SumOfValues(d) ==
  IF DOMAIN d = {} THEN 0
  ELSE LET k == CHOOSE k \in DOMAIN d : TRUE
       IN d[k] + SumOfValues(Del(d, k))

\* C25: after every completed call, total_events is the sum of the counts
\* of all event types and the sum of the change counts of all directories;
\* total_events + excluded_events is the number of calls made; and the
\* history holds min(total_events, max_history) records.
C25_CountersAgree ==
  /\ total_events = SumOfValues(event_counts)
  /\ total_events = SumOfValues(dir_changes)
  /\ total_events + excluded_events = Len(calls)
  /\ Len(recent_events) = IF total_events < max_history THEN total_events ELSE max_history

\* Three calls were made, one of them excluded, the two others of
\* different types and for different directories, and the history has
\* room for one record only.
C25_Witness ==
  /\ Len(calls) = 3
  /\ excluded_events = 1
  /\ total_events = 2
  /\ Cardinality(DOMAIN event_counts) = 2
  /\ Cardinality(DOMAIN dir_changes) = 2
  /\ max_history = 1
  /\ Len(recent_events) = 1

\* Call i is one the conservation claim leaves out: a "modified" on a file
\* that is there and that the ledger does not know, or a "created" or
\* "moved_to" on a path the ledger already holds.
BreaksConservation(i) ==
  /\ ~Excluded(i)
  /\ \/ /\ calls[i].event_type = "modified"
        /\ SizeRead(calls[i].fs)
        /\ ~Has(calls[i].before.file_sizes, calls[i].path)
     \/ /\ calls[i].event_type \in {"created", "moved_to"}
        /\ Has(calls[i].before.file_sizes, calls[i].path)

\* C26: in a run without such calls, after every completed call the
\* cumulative size deltas of all directories add up to the sizes of all
\* files in the ledger.
C26_DeltasSumToLedger ==
  (\A i \in 1..Len(calls) : ~BreaksConservation(i)) =>
    SumOfValues(dir_size_deltas) = SumOfValues(file_sizes)

\* After three calls of such a run a file of a size above 0 has moved
\* from one directory, whose cumulative delta is back at 0, to another,
\* and the ledger holds it under its new path.
C26_Witness ==
  /\ Len(calls) = 3
  /\ \A i \in 1..Len(calls) : ~BreaksConservation(i)
  /\ CrossRename(2)
  /\ Has(calls[2].before.file_sizes, calls[2].path)
  /\ calls[2].before.file_sizes[calls[2].path] > 0
  /\ dir_size_deltas[dirname(calls[2].path)] = 0
  /\ SumOfValues(file_sizes) > 0
  /\ DOMAIN file_sizes = {calls[3].path}

\* C27 as stated: a get_changed_dirs that runs while the observer thread is
\* inside _record_change always returns: every directory it enumerates has
\* a change count and a last change.  Between line 174 and line 175 a
\* directory recorded for the first time has a change count and no last
\* change, and self.dir_last_change[d] raises KeyError.
C27_QueryAlwaysReturns ==
  display # <<>> => ~display[1].raised

\* Calls i and i + 1 are the two halves of one on_moved.
Rename(i) ==
  /\ i + 1 <= Len(calls)
  /\ calls[i].event_type = "moved"
  /\ calls[i + 1].event_type = "moved_to"

\* Of the rename of calls i, i + 1 exactly call k was recorded: one event
\* counted, of k's type, one excluded, one record appended to the history,
\* for k, and no directory but k's has its cumulative delta changed.
OnlyHalfRecorded(i, k) ==
  LET b == calls[i].before
      a == After(i + 1)
      t == calls[k].event_type
      d == DirectoryOfCall(k)
  IN /\ a.total_events = b.total_events + 1
     /\ a.excluded_events = b.excluded_events + 1
     /\ a.event_counts = Put(b.event_counts, t, Get(b.event_counts, t, 0) + 1)
     /\ a.dir_changes = Put(b.dir_changes, d, Get(b.dir_changes, d, 0) + 1)
     /\ \A e \in DOMAIN a.dir_size_deltas \ {d} :
          Has(b.dir_size_deltas, e) /\ a.dir_size_deltas[e] = b.dir_size_deltas[e]
     /\ a.recent_events = LastN(Append(b.recent_events, RecordOf(k)), a.max_history)

\* C28: the two halves of a rename are filtered one by one and recorded in
\* order.  With only the source excluded exactly the "moved_to" is
\* recorded: the destination's directory is credited with the size read
\* there and nothing is taken off anywhere.  With only the destination
\* excluded exactly the "moved" is recorded.  With neither excluded the
\* "moved" record goes into the history right before the "moved_to"
\* record.
C28_RenameHalvesFiltered ==
  \A i \in 1..Len(calls) :
    Rename(i) =>
      LET b == calls[i].before
          a == After(i + 1)
          D == DirectoryOfCall(i + 1)
      IN /\ (Excluded(i) /\ ~Excluded(i + 1)) =>
              /\ OnlyHalfRecorded(i, i + 1)
              /\ Get(a.dir_size_deltas, D, 0) =
                   Get(b.dir_size_deltas, D, 0)
                     + (IF SizeRead(calls[i + 1].fs) THEN calls[i + 1].fs.size ELSE 0)
         /\ (~Excluded(i) /\ Excluded(i + 1)) => OnlyHalfRecorded(i, i)
         /\ (~Excluded(i) /\ ~Excluded(i + 1)) =>
              /\ a.total_events = b.total_events + 2
              /\ a.recent_events =
                   LastN(b.recent_events \o <<RecordOf(i), RecordOf(i + 1)>>, a.max_history)

\* A file was renamed from an excluded path to one that is not, where it
\* has a size above 0: one event is counted, the destination's directory
\* is credited, and the history holds the "moved_to" record alone.
C28_Witness ==
  \E i \in 1..Len(calls) :
    /\ Rename(i)
    /\ Excluded(i) /\ ~Excluded(i + 1)
    /\ SizeRead(calls[i + 1].fs) /\ calls[i + 1].fs.size > 0
    /\ total_events = 1 /\ excluded_events = 1
    /\ dir_size_deltas[dirname(calls[i + 1].path)] = calls[i + 1].fs.size
    /\ Len(recent_events) = 1
    /\ recent_events[1][2] = "moved_to"

====
